---- MODULE Spec2Model ----
(***************************************************************************)
(* UDP tracker client of gweiss27/bit-torrent-client.                      *)
(*                                                                         *)
(* src/tracker.js      getPeers and the message codec                      *)
(* src/util.js         genId (lines 10-19) and, further down, the          *)
(*                     torrent-parser implementations of size and infoHash *)
(* src/torrent-parser.js  open, and bodiless size / infoHash               *)
(*                                                                         *)
(* Buffers are sequences of bytes (0..255); offset o of the source is      *)
(* index o + 1 here.  A JavaScript value is a record tagged by t; the      *)
(* outcome of a call is a record whose err field is "none" or the name of  *)
(* the exception the call raises.                                          *)
(*                                                                         *)
(* Three specifications:                                                   *)
(*   Spec          the program through its export getPeers                 *)
(*   SpecListener  the 'message' listener of getPeers (lines 30-45) on a   *)
(*                 listening socket                                        *)
(*   SpecCodec     the codec functions applied to drawn inputs             *)
(***************************************************************************)
EXTENDS Integers, Sequences, FiniteSets, TLC

VARIABLES
    pc,         \* per session: "idle", "threw" (getPeers raised), "listening"
    torrent,    \* per session: the descriptor passed to getPeers
    inbox,      \* per session: datagrams received by the socket, not yet dispatched
    sent,       \* per session: datagrams handed to socket.send, in order
    calls,      \* per session: the arguments of the callback's invocations, in order
    logs,       \* per session: number of console.log lines written by the listener
    uncaught,   \* exception that escaped a listener ("none" if none): ends the process
    abandoned,  \* per session: the caller has given up on the session
    arrived,    \* number of datagrams received so far, over all sockets
    rcvd,       \* per session: the datagrams dispatched to the listener, in order
    id,         \* util.js: the module-level peer id cache
    out         \* outcome of the last codec function applied on its own

vars == <<pc, torrent, inbox, sent, calls, logs, uncaught, abandoned, arrived, rcvd, id, out>>

-----------------------------------------------------------------------------
(* Bounds of the model *)

NSessions == 2      \* concurrent getPeers calls
MaxMsgs == 3        \* datagrams received over the whole run
MaxPeers == 3       \* peer groups in an announce response handed to the decoder
MaxCalls == 3       \* calls of the peer-id accessor in one process

Sessions == 1..NSessions

-----------------------------------------------------------------------------
(* JavaScript values and outcomes *)

Undefined == [t |-> "undefined"]
Null == [t |-> "null"]
Buf(b) == [t |-> "buffer", b |-> b]

Ok(v) == [err |-> "none", val |-> v]
Throw(e) == [err |-> e]

Min(a, b) == IF a < b THEN a ELSE b

-----------------------------------------------------------------------------
(* Node's Buffer *)

\* Buffer.alloc(n): n zero bytes
alloc(n) == [i \in 1..n |-> 0]

\* Buffer.allocUnsafe(n): n bytes of whatever the memory held; g is that content
allocUnsafe(n, g) == [i \in 1..n |-> g]

\* src.copy(target, targetStart): as many bytes of src as fit, target's length kept
copy(src, target, targetStart) ==
    [i \in 1..Len(target) |->
        IF i > targetStart /\ i <= targetStart + Len(src)
        THEN src[i - targetStart]
        ELSE target[i]]

\* buf.slice(start, end): both clamped to the buffer
slice(b, start, end) == SubSeq(b, Min(start, Len(b)) + 1, Min(end, Len(b)))

U32BE(v) == << (v \div 16777216) % 256, (v \div 65536) % 256, (v \div 256) % 256, v % 256 >>
U16BE(v) == << (v \div 256) % 256, v % 256 >>

writeUInt32BE(b, v, offset) == copy(U32BE(v), b, offset)
writeUInt16BE(b, v, offset) == copy(U16BE(v), b, offset)
\* writeInt32BE: a negative value is written in two's complement
writeInt32BE(b, v, offset) ==
    copy(IF v < 0 THEN [i \in 1..4 |-> 255 - U32BE(-v - 1)[i]] ELSE U32BE(v), b, offset)

\* buf.readUInt32BE(offset): RangeError when the four bytes are not all there
readUInt32BE(b, offset) ==
    IF offset + 4 > Len(b)
    THEN Throw("RangeError")
    ELSE Ok(((b[offset + 1] * 256 + b[offset + 2]) * 256 + b[offset + 3]) * 256 + b[offset + 4])

readUInt16BE(b, offset) ==
    IF offset + 2 > Len(b)
    THEN Throw("RangeError")
    ELSE Ok(b[offset + 1] * 256 + b[offset + 2])

\* buf.join(sep): the bytes in decimal, separated by sep
RECURSIVE join(_, _)
join(b, sep) ==
    IF Len(b) = 0 THEN ""
    ELSE IF Len(b) = 1 THEN ToString(b[1])
    ELSE ToString(b[1]) \o sep \o join(Tail(b), sep)

-----------------------------------------------------------------------------
(* Numbers.  A file length is a JavaScript number, a double holding a natural *)
(* number; sizes go up to 2^64 and past it, so a number is kept as its        *)
(* big-endian bytes without leading zeros (the empty sequence is 0).          *)

RECURSIVE strip(_)
strip(b) == IF Len(b) > 0 /\ b[1] = 0 THEN strip(Tail(b)) ELSE b

\* the number n, for n below 2^31
Num(n) == strip(U32BE(n))

\* 2^e
Pow2(e) == << 2 ^ (e % 8) >> \o alloc(e \div 8)

\* the exact sum of two naturals, c carried in
RECURSIVE addBytes(_, _, _)
addBytes(a, b, c) ==
    IF Len(a) = 0 /\ Len(b) = 0 THEN (IF c = 0 THEN <<>> ELSE <<c>>)
    ELSE LET x == IF Len(a) = 0 THEN 0 ELSE a[Len(a)]
             y == IF Len(b) = 0 THEN 0 ELSE b[Len(b)]
             t == x + y + c
         IN  addBytes(SubSeq(a, 1, Len(a) - 1), SubSeq(b, 1, Len(b) - 1), t \div 256)
             \o << t % 256 >>

\* the number of significant bits
bitLength(a) ==
    IF Len(a) = 0 THEN 0
    ELSE 8 * (Len(a) - 1) + (CHOOSE k \in 1..8 : 2 ^ (k - 1) <= a[1] /\ a[1] < 2 ^ k)

\* the double nearest to a natural: 53 significant bits are kept, the rest is
\* rounded off, a tie going to the even neighbour (for naturals of up to 68 bits)
toDouble(a) ==
    LET k == bitLength(a) - 53 IN
    IF k <= 0 THEN a
    ELSE LET n     == Len(a)
             low16 == a[n - 1] * 256 + a[n]
             low   == low16 % (2 ^ k)
             half  == 2 ^ (k - 1)
             odd   == (low16 \div (2 ^ k)) % 2 = 1
             down  == SubSeq(a, 1, n - 2) \o U16BE(low16 - low)
         IN  IF low > half \/ (low = half /\ odd) THEN addBytes(down, Num(2 ^ k), 0)
             ELSE down

\* a + b of two numbers
jsAdd(a, b) == toDouble(addBytes(a, b, 0))

-----------------------------------------------------------------------------
(* Torrent descriptors (the value bencode.decode hands over) *)

Array(a) == [t |-> "array", a |-> a]
Number(n) == [t |-> "number", n |-> n]

Announces == {"udp://tracker-a.example:6969", "udp://tracker-b.example:1337"}

Infos ==
    { [files |-> Array(<<Num(100), Num(250), Num(150)>>), length |-> Undefined],
      [files |-> Array(<<Num(7)>>), length |-> Undefined],
      [files |-> Undefined, length |-> Number(Num(500))],
      [files |-> Undefined, length |-> Number(Num(0))],
      [files |-> Undefined, length |-> Number(Num(70000))],
      [files |-> Undefined, length |-> Number(Pow2(32))],
      [files |-> Undefined, length |-> Number(Pow2(63))],
      [files |-> Array(<<Pow2(32), Num(5), Pow2(31)>>), length |-> Undefined],
      [files |-> Array(<<Pow2(53), Num(1)>>), length |-> Undefined],
      [files |-> Array(<<Pow2(53), Num(3)>>), length |-> Undefined],
      [files |-> Array(<<Pow2(63), Pow2(63)>>), length |-> Undefined],
      [files |-> Array(<<>>), length |-> Undefined] }

Torrents == { [t |-> "torrent", announce |-> a, info |-> i] : a \in Announces, i \in Infos }

\* url.parse(rawUrl): host keeps the port, hostname does not
urlParse(rawUrl) ==
    CASE rawUrl = "udp://tracker-a.example:6969" ->
            [protocol |-> "udp:", host |-> "tracker-a.example:6969",
             hostname |-> "tracker-a.example", port |-> "6969"]
      [] rawUrl = "udp://tracker-b.example:1337" ->
            [protocol |-> "udp:", host |-> "tracker-b.example:1337",
             hostname |-> "tracker-b.example", port |-> "1337"]

-----------------------------------------------------------------------------
(* Values the program draws or finds: crypto.randomBytes, recycled memory *)

\* crypto.randomBytes(4)
RandomBytes4 == { <<0, 0, 0, 7>>, <<0, 0, 0, 9>> }

\* crypto.randomBytes(20)
RandomBytes20 == { [i \in 1..20 |-> 17], [i \in 1..20 |-> 34] }

\* what a byte of Buffer.allocUnsafe memory may hold
Garbage == {0, 238}

-----------------------------------------------------------------------------
(* util.js *)

\* '-AT0001-'
ClientTag == <<45, 65, 84, 48, 48, 48, 49, 45>>

\* genId: the value of id after the call, which is also what the call returns
\* (r is what crypto.randomBytes(20) gives if it is drawn)
genId(cache, r) ==
    IF cache.t = "null" THEN Buf(copy(ClientTag, r, 0)) ELSE cache

\* util.getId(), as tracker.js calls it: util.js exports genId and nothing named
\* getId, so the call raises TypeError (util.getId is not a function)
getId == Throw("TypeError")

-----------------------------------------------------------------------------
(* torrent-parser: size and infoHash.  src/torrent-parser.js declares both    *)
(* with the body elided; the bodies are the ones given in src/util.js.        *)

\* reduce((a, b) => a + b) of a non-empty array: from the left, each sum a double
RECURSIVE reduceSum(_)
reduceSum(a) ==
    IF Len(a) = 1 THEN a[1]
    ELSE jsAdd(reduceSum(SubSeq(a, 1, Len(a) - 1)), a[Len(a)])

\* bignum.toBuffer(n, { size: 8 }): the value of the number n big-endian, padded
\* in front to a multiple of 8 bytes, 8 bytes for 0
toBuffer8(n) ==
    LET len == IF Len(n) = 0 THEN 8 ELSE ((Len(n) + 7) \div 8) * 8
    IN  alloc(len - Len(n)) \o n

size(tor) ==
    IF tor.t = "undefined" THEN Throw("TypeError")           \* torrent.info of undefined
    ELSE IF tor.info.files.t = "array"
         THEN IF Len(tor.info.files.a) = 0
              THEN Throw("TypeError")                         \* reduce of an empty array
              ELSE Ok(toBuffer8(reduceSum(tor.info.files.a)))
         ELSE Ok(toBuffer8(tor.info.length.n))

\* bencode.encode(info): the canonical encoding, kept here as the list of numbers
\* it is made of (a leading 1 for a file list, 0 for a single length)
RECURSIVE flatten(_)
flatten(a) == IF Len(a) = 0 THEN <<>> ELSE <<Len(a[1])>> \o a[1] \o flatten(Tail(a))

bencode(info) ==
    IF info.files.t = "array" THEN <<1>> \o flatten(info.files.a)
    ELSE <<0>> \o flatten(<<info.length.n>>)

RECURSIVE mix(_, _)
mix(x, h) == IF Len(x) = 0 THEN h ELSE mix(Tail(x), (h * 31 + x[1]) % 251)

\* crypto.createHash('sha1').update(x).digest(): 20 bytes fixed by x
sha1(x) == [i \in 1..20 |-> (mix(x, 7) + 13 * i) % 256]

infoHash(tor) ==
    IF tor.t = "undefined" THEN Throw("TypeError")           \* torrent.info of undefined
    ELSE Ok(sha1(bencode(tor.info)))

-----------------------------------------------------------------------------
(* src/tracker.js: the message codec *)

DefaultPort == 6881

respType(resp) ==
    LET action == readUInt32BE(resp, 0) IN
    IF action.err # "none" THEN action
    ELSE IF action.val = 0 THEN Ok("connect")
    ELSE IF action.val = 1 THEN Ok("announce")
    ELSE Ok("undefined")

\* buildConnReq fills a 16-byte buffer in (tx is what crypto.randomBytes(4) gives)
\* and ends without a return statement: the call evaluates to undefined
buildConnReq(tx) ==
    LET buf0 == alloc(16)
        buf1 == writeUInt32BE(buf0, 1047, 0)            \* 0x417
        buf2 == writeUInt32BE(buf1, 655366528, 4)       \* 0x27101980
        buf3 == writeUInt32BE(buf2, 0, 8)
        buf  == copy(tx, buf3, 12)
    IN  Undefined

parseConnResp(resp) ==
    LET action == readUInt32BE(resp, 0)
        transactionId == readUInt32BE(resp, 4)
    IN  IF action.err # "none" THEN action
        ELSE IF transactionId.err # "none" THEN transactionId
        ELSE Ok([action |-> action.val,
                 transactionId |-> transactionId.val,
                 connectionId |-> slice(resp, 8, Len(resp))])

\* the buffer lines 144-171 of buildAnnounceReq write, given what the calls on
\* lines 151-167 return: g is the content of the unsafe allocation
announceBuf(connId, tx, hash, peerId, left, key, port, g) ==
    LET b0  == allocUnsafe(98, g)
        b1  == copy(connId, b0, 0)
        b2  == writeUInt32BE(b1, 1, 8)
        b3  == copy(tx, b2, 12)
        b4  == copy(hash, b3, 16)
        b5  == copy(peerId, b4, 36)
        b6  == copy(alloc(8), b5, 56)
        b7  == copy(left, b6, 64)
        b8  == copy(alloc(8), b7, 72)
        b9  == writeUInt32BE(b8, 0, 80)                 \* event
        b10 == writeUInt32BE(b9, 0, 80)                 \* ip address, at 80 again
        b11 == copy(key, b10, 88)
        b12 == writeInt32BE(b11, -1, 92)
    IN  writeUInt16BE(b12, port, 96)

\* buildAnnounceReq(connId, torrent, port): the calls it makes may raise
buildAnnounceReq(connId, tor, port, tx, key, g) ==
    LET hash == infoHash(tor)
        peerId == getId
        left == size(tor)
    IN  IF hash.err # "none" THEN hash
        ELSE IF peerId.err # "none" THEN peerId
        ELSE IF left.err # "none" THEN left
        ELSE Ok(Buf(announceBuf(connId, tx, hash.val, peerId.val.b, left.val, key, port, g)))

\* group(iterable, groupSize) of parseAnnounceResp
RECURSIVE group(_, _)
group(iterable, groupSize) ==
    IF Len(iterable) = 0 THEN <<>>
    ELSE <<slice(iterable, 0, groupSize)>>
         \o group(slice(iterable, groupSize, Len(iterable)), groupSize)

\* peerOf with the port read at offset 3, one byte early
peerOfPortEarly(address) ==
    LET port == readUInt16BE(address, 3) IN
    IF Len(address) < 6 THEN Throw("RangeError")
    ELSE Ok([ip |-> join(slice(address, 0, 4), "."), port |-> port.val])

\* the callback of the map on lines 209-214
peerOf(address) ==
    LET port == readUInt16BE(address, 4) IN
    IF port.err # "none" THEN port
    ELSE Ok([ip |-> join(slice(address, 0, 4), "."), port |-> port.val])

parseAnnounceResp(resp) ==
    LET action == readUInt32BE(resp, 0)
        transactionId == readUInt32BE(resp, 4)
        leechers == readUInt32BE(resp, 8)
        seeders == readUInt32BE(resp, 12)
        groups == group(slice(resp, 20, Len(resp)), 6)
    IN  IF action.err # "none" THEN action
        ELSE IF transactionId.err # "none" THEN transactionId
        ELSE IF leechers.err # "none" THEN leechers
        ELSE IF seeders.err # "none" THEN seeders
        ELSE IF \E k \in 1..Len(groups) : peerOf(groups[k]).err # "none"
        THEN Throw("RangeError")
        ELSE Ok([action |-> action.val,
                 transactionId |-> transactionId.val,
                 leechers |-> leechers.val,
                 seeders |-> seeders.val,
                 peers |-> [k \in 1..Len(groups) |-> peerOf(groups[k]).val]])

\* udpSend(socket, message, rawUrl): the datagram handed to socket.send
udpSend(message, rawUrl) ==
    LET url == urlParse(rawUrl) IN
    IF message.t = "undefined" THEN Throw("TypeError")       \* message.length of undefined
    ELSE Ok([address |-> url.host, port |-> url.port, data |-> message.b])

-----------------------------------------------------------------------------
(* Datagrams a socket may receive *)

ConnectionId == <<170, 187, 204, 221, 238, 255, 0, 17>>      \* AA BB CC DD EE FF 00 11
PeerA == <<192, 168, 1, 1, 26, 225>>                         \* 192.168.1.1:6881
PeerB == <<10, 0, 0, 5, 200, 213>>                           \* 10.0.0.5:51413

TxA == <<0, 0, 0, 7>>
TxB == <<0, 0, 0, 9>>

connectResponse(tx) == U32BE(0) \o tx \o ConnectionId
announceResponse(tx, peers) == U32BE(1) \o tx \o U32BE(1800) \o U32BE(3) \o U32BE(7) \o peers

Datagrams ==
    { <<0, 0, 0>>,                                           \* shorter than an action field
      connectResponse(TxA),
      connectResponse(TxB) \o <<1, 2, 3, 4>>,
      slice(connectResponse(TxB), 0, 12),
      slice(connectResponse(TxA), 0, 6),
      announceResponse(TxA, PeerA \o PeerB),
      announceResponse(TxB, PeerA),
      announceResponse(TxA, <<>>),
      slice(announceResponse(TxA, PeerA), 0, 23),
      slice(announceResponse(TxB, <<>>), 0, 18),
      slice(announceResponse(TxA, <<>>), 0, 10),
      U32BE(2) \o TxA \o ConnectionId }

-----------------------------------------------------------------------------
(* src/tracker.js: getPeers *)

\* getPeers(torrent, callback), lines 24-28: the socket is created, the connect
\* request is built and handed to udpSend.  When udpSend raises, getPeers raises
\* to its caller and line 30 is not reached.
getPeers(s, tor) ==
    /\ pc[s] = "idle"
    /\ uncaught = "none"
    /\ \E tx \in RandomBytes4 :
          LET url == tor.announce
              r == udpSend(buildConnReq(tx), url)
          IN  /\ torrent' = [torrent EXCEPT ![s] = tor]
              /\ IF r.err # "none"
                 THEN /\ pc' = [pc EXCEPT ![s] = "threw"]
                      /\ UNCHANGED sent
                 ELSE /\ pc' = [pc EXCEPT ![s] = "listening"]
                      /\ sent' = [sent EXCEPT ![s] = Append(@, r.val)]
    /\ UNCHANGED <<inbox, calls, logs, uncaught, abandoned, arrived, rcvd, id, out>>

\* the listener of lines 30-45 applied to response; tx, key and g are what
\* buildAnnounceReq would draw
OnMessage(s, response, tx, key, g) ==
    LET type == respType(response) IN
    IF type.err # "none"
    THEN /\ uncaught' = type.err
         /\ UNCHANGED <<sent, calls, logs>>
    ELSE IF type.val = "connect"
    THEN LET connResp == parseConnResp(response) IN
         IF connResp.err # "none"
         THEN /\ uncaught' = connResp.err
              /\ UNCHANGED <<sent, calls, logs>>
         ELSE \* line 35 passes the connection id alone: torrent is undefined, port 6881
              LET announceReq ==
                      buildAnnounceReq(connResp.val.connectionId, Undefined, DefaultPort,
                                       tx, key, g)
              IN  IF announceReq.err # "none"
                  THEN /\ uncaught' = announceReq.err
                       /\ UNCHANGED <<sent, calls, logs>>
                  ELSE LET r == udpSend(announceReq.val, torrent[s].announce) IN
                       IF r.err # "none"
                       THEN /\ uncaught' = r.err
                            /\ UNCHANGED <<sent, calls, logs>>
                       ELSE /\ sent' = [sent EXCEPT ![s] = Append(@, r.val)]
                            /\ UNCHANGED <<uncaught, calls, logs>>
    ELSE IF type.val = "announce"
    THEN LET announceResp == parseAnnounceResp(response) IN
         IF announceResp.err # "none"
         THEN /\ uncaught' = announceResp.err
              /\ UNCHANGED <<sent, calls, logs>>
         ELSE /\ calls' = [calls EXCEPT ![s] = Append(@, announceResp.val.peers)]
              /\ UNCHANGED <<uncaught, sent, logs>>
    ELSE /\ logs' = [logs EXCEPT ![s] = @ + 1]
         /\ UNCHANGED <<uncaught, sent, calls>>

\* the socket of a listening session receives datagram d
Arrive(s, d) ==
    /\ pc[s] = "listening"
    /\ uncaught = "none"
    /\ arrived < MaxMsgs
    /\ arrived' = arrived + 1
    /\ inbox' = [inbox EXCEPT ![s] = Append(@, d)]
    /\ UNCHANGED <<pc, torrent, sent, calls, logs, uncaught, abandoned, rcvd, id, out>>

\* Dispatch with one listener for all sockets: the datagram of session s is
\* handled on behalf of any session
DispatchShared(s) ==
    /\ pc[s] = "listening"
    /\ uncaught = "none"
    /\ inbox[s] # <<>>
    /\ \E t \in Sessions, tx \in RandomBytes4, key \in RandomBytes4, g \in Garbage :
          OnMessage(t, Head(inbox[s]), tx, key, g)
    /\ inbox' = [inbox EXCEPT ![s] = Tail(@)]
    /\ rcvd' = [rcvd EXCEPT ![s] = Append(@, Head(inbox[s]))]
    /\ UNCHANGED <<pc, torrent, abandoned, arrived, id, out>>

\* the event loop emits 'message' for the oldest datagram of the socket.  An
\* exception that escapes the listener is uncaught and ends the process.
Dispatch(s) ==
    /\ pc[s] = "listening"
    /\ uncaught = "none"
    /\ inbox[s] # <<>>
    /\ \E tx \in RandomBytes4, key \in RandomBytes4, g \in Garbage :
          OnMessage(s, Head(inbox[s]), tx, key, g)
    /\ inbox' = [inbox EXCEPT ![s] = Tail(@)]
    /\ rcvd' = [rcvd EXCEPT ![s] = Append(@, Head(inbox[s]))]
    /\ UNCHANGED <<pc, torrent, abandoned, arrived, id, out>>

\* the caller gives up on a session.  getPeers returns nothing to cancel with and
\* never closes the socket, so nothing of the session changes.
Abandon(s) ==
    /\ pc[s] = "listening"
    /\ uncaught = "none"
    /\ ~abandoned[s]
    /\ abandoned' = [abandoned EXCEPT ![s] = TRUE]
    /\ UNCHANGED <<pc, torrent, inbox, sent, calls, logs, uncaught, arrived, rcvd, id, out>>

-----------------------------------------------------------------------------
(* Spec: the program through its export, getPeers *)

NoOut == [op |-> "none", done |-> TRUE]

Init ==
    /\ pc = [s \in Sessions |-> "idle"]
    /\ torrent = [s \in Sessions |-> Undefined]
    /\ inbox = [s \in Sessions |-> <<>>]
    /\ sent = [s \in Sessions |-> <<>>]
    /\ calls = [s \in Sessions |-> <<>>]
    /\ logs = [s \in Sessions |-> 0]
    /\ uncaught = "none"
    /\ abandoned = [s \in Sessions |-> FALSE]
    /\ arrived = 0
    /\ rcvd = [s \in Sessions |-> <<>>]
    /\ id = Null
    /\ out = NoOut

Next == \E s \in Sessions, tor \in Torrents : getPeers(s, tor)

Spec == Init /\ [][Next]_vars

-----------------------------------------------------------------------------
(* SpecListener: the listener of lines 30-45 on its own.  Every session's    *)
(* socket carries the listener, which is where getPeers stands once line 28  *)
(* is behind it; what the socket receives is any datagram of Datagrams.      *)

\* the descriptor session s was started with: the trackers alternate
SessionTorrent(s) ==
    [t |-> "torrent",
     announce |-> IF s % 2 = 1 THEN "udp://tracker-a.example:6969"
                  ELSE "udp://tracker-b.example:1337",
     info |-> [files |-> Array(<<Num(100), Num(250), Num(150)>>), length |-> Undefined]]

InitListener ==
    /\ pc = [s \in Sessions |-> "listening"]
    /\ torrent = [s \in Sessions |-> SessionTorrent(s)]
    /\ inbox = [s \in Sessions |-> <<>>]
    /\ sent = [s \in Sessions |-> <<>>]
    /\ calls = [s \in Sessions |-> <<>>]
    /\ logs = [s \in Sessions |-> 0]
    /\ uncaught = "none"
    /\ abandoned = [s \in Sessions |-> FALSE]
    /\ arrived = 0
    /\ rcvd = [s \in Sessions |-> <<>>]
    /\ id = Null
    /\ out = NoOut

NextListener ==
    \/ \E s \in Sessions, d \in Datagrams : Arrive(s, d)
    \/ \E s \in Sessions : Dispatch(s)
    \/ \E s \in Sessions : Abandon(s)

SpecListener == InitListener /\ [][NextListener]_vars

-----------------------------------------------------------------------------
(* SpecCodec: the codec functions applied on their own to drawn inputs *)

PeerIds == { genId(Null, r).b : r \in RandomBytes20 }
Ports == {DefaultPort, DefaultPort + 8}

\* inputs of EncodeAnnounce: a datagram the listener classifies connect, and
\* what buildAnnounceReq reads or draws
AnnounceInputs ==
    { [resp |-> resp, tor |-> tor, peerId |-> peerId, tx |-> tx, key |-> key,
       port |-> port, g |-> g] :
        resp \in { d \in Datagrams : respType(d).err = "none" /\ respType(d).val = "connect" },
        tor \in { t \in Torrents : size(t).err = "none" }, peerId \in PeerIds, tx \in RandomBytes4, key \in RandomBytes4,
        port \in Ports, g \in Garbage }

\* the path of the connection id on lines 31-35: a datagram classified connect
\* is parsed and its connectionId is what buildAnnounceReq writes from; the
\* hash, peer id and size are given, as the values the calls of lines 153-159
\* are there to deliver
EncodeAnnounce ==
    /\ out.op = "EncodeAnnounce"
    /\ ~out.done
    /\ LET in == out.in
           connResp == parseConnResp(in.resp)
       IN  out' = [out EXCEPT
                     !.done = TRUE,
                     !.res = [connResp |-> connResp,
                              req |-> IF connResp.err = "none"
                                      THEN Buf(announceBuf(connResp.val.connectionId, in.tx,
                                                           infoHash(in.tor).val, in.peerId,
                                                           size(in.tor).val, in.key, in.port,
                                                           in.g))
                                      ELSE Undefined]]
    /\ UNCHANGED <<pc, torrent, inbox, sent, calls, logs, uncaught, abandoned, arrived, rcvd, id>>

\* peer groups 1..k of a response: three endpoints in rotation
PeerC == <<172, 16, 254, 3, 0, 80>>                          \* 172.16.254.3:80

RECURSIVE peerGroups(_)
peerGroups(k) ==
    IF k = 0 THEN <<>>
    ELSE peerGroups(k - 1) \o (CASE k % 3 = 1 -> PeerA [] k % 3 = 2 -> PeerB [] OTHER -> PeerC)

\* inputs of DecodeAnnounce: the datagrams line 37 classifies as announce,
\* announce responses of 0..MaxPeers whole peer groups, alone or with 1..5
\* bytes more, and every prefix of an announce header
DecodeInputs ==
    { d \in Datagrams : respType(d).err = "none" /\ respType(d).val = "announce" }
    \cup { announceResponse(tx, peerGroups(k)) : tx \in RandomBytes4, k \in 0..MaxPeers }
    \cup { announceResponse(tx, peerGroups(k)) \o slice(PeerC, 0, extra) :
              tx \in RandomBytes4, k \in 0..MaxPeers, extra \in 1..5 }
    \cup { slice(announceResponse(tx, <<>>), 0, n) : tx \in RandomBytes4, n \in 0..19 }

\* parseAnnounceResp applied to a byte string (line 39)
DecodeAnnounce ==
    /\ out.op = "DecodeAnnounce"
    /\ ~out.done
    /\ out' = [out EXCEPT !.done = TRUE, !.res = parseAnnounceResp(out.in)]
    /\ UNCHANGED <<pc, torrent, inbox, sent, calls, logs, uncaught, abandoned, arrived, rcvd, id>>

\* util.genId() called once more in this process: id is the module's variable
\* of util.js line 10; out keeps what each call drew and returned
GenId ==
    /\ out.op = "peerId"
    /\ Len(out.res) < MaxCalls
    /\ \E r \in RandomBytes20 :
          /\ id' = genId(id, r)
          /\ out' = [out EXCEPT !.done = TRUE,
                                !.in = Append(@, "genId"),
                                !.res = Append(@, Ok(id'))]
    /\ UNCHANGED <<pc, torrent, inbox, sent, calls, logs, uncaught, abandoned, arrived, rcvd>>

\* util.getId() called as line 155 of tracker.js does
GetId ==
    /\ out.op = "peerId"
    /\ Len(out.res) < MaxCalls
    /\ out' = [out EXCEPT !.done = TRUE,
                          !.in = Append(@, "getId"),
                          !.res = Append(@, getId)]
    /\ UNCHANGED <<pc, torrent, inbox, sent, calls, logs, uncaught, abandoned, arrived, rcvd, id>>

\* torrentParser.size(torrent) applied to a descriptor (line 159)
Size ==
    /\ out.op = "size"
    /\ ~out.done
    /\ out' = [out EXCEPT !.done = TRUE, !.res = size(out.in)]
    /\ UNCHANGED <<pc, torrent, inbox, sent, calls, logs, uncaught, abandoned, arrived, rcvd, id>>

\* what a codec function is applied to: the function's name and its inputs
CodecInputs ==
    { [op |-> "EncodeAnnounce", done |-> FALSE, in |-> in, res |-> Undefined] :
        in \in AnnounceInputs }
    \cup { [op |-> "DecodeAnnounce", done |-> FALSE, in |-> in, res |-> Undefined] :
        in \in DecodeInputs }
    \cup { [op |-> "peerId", done |-> FALSE, in |-> <<>>, res |-> <<>>] }
    \cup { [op |-> "size", done |-> FALSE, in |-> in, res |-> Undefined] : in \in Torrents }

InitCodec ==
    /\ pc = [s \in Sessions |-> "idle"]
    /\ torrent = [s \in Sessions |-> Undefined]
    /\ inbox = [s \in Sessions |-> <<>>]
    /\ sent = [s \in Sessions |-> <<>>]
    /\ calls = [s \in Sessions |-> <<>>]
    /\ logs = [s \in Sessions |-> 0]
    /\ uncaught = "none"
    /\ abandoned = [s \in Sessions |-> FALSE]
    /\ arrived = 0
    /\ rcvd = [s \in Sessions |-> <<>>]
    /\ id = Null
    /\ out \in CodecInputs

NextCodec ==
    \/ EncodeAnnounce
    \/ DecodeAnnounce
    \/ GenId
    \/ GetId
    \/ Size

SpecCodec == InitCodec /\ [][NextCodec]_vars

-----------------------------------------------------------------------------
(* Vocabulary of the claims *)

\* the transaction id field of a datagram: bytes 4-7
TxOf(d) == slice(d, 4, 8)

\* the transaction id of the request awaiting a reply: bytes 12-15 of the last
\* request the session sent; the empty sequence when it has sent none
PendingTx(s) ==
    IF Len(sent[s]) = 0 THEN <<>> ELSE slice(sent[s][Len(sent[s])].data, 12, 16)

\* the listener is being applied to the oldest datagram of session s
Dispatched(s) == Len(rcvd'[s]) = Len(rcvd[s]) + 1

\* a datagram the wire format rules out: no action field, a connect response
\* shorter than 16 bytes, an announce response shorter than 20 bytes or with a
\* trailing partial peer group
Malformed(d) ==
    \/ Len(d) < 4
    \/ slice(d, 0, 4) = U32BE(0) /\ Len(d) < 16
    \/ slice(d, 0, 4) = U32BE(1) /\ (Len(d) < 20 \/ (Len(d) - 20) % 6 # 0)

\* the peer list the wire format gives an announce response
PeersOf(d) ==
    [k \in 1..((Len(d) - 20) \div 6) |->
        [ip |-> join(slice(d, 14 + 6 * k, 18 + 6 * k), "."),
         port |-> d[19 + 6 * k] * 256 + d[20 + 6 * k]]]

\* resp is a well-formed response to request req: same action, same transaction
\* id, and the length the action asks for
Answers(resp, req) ==
    /\ ~Malformed(resp)
    /\ Len(resp) >= 8
    /\ slice(resp, 0, 4) = slice(req, 8, 12)
    /\ TxOf(resp) = slice(req, 12, 16)

\* every request the session has sent has had its answer dispatched
Answered(s) ==
    \A i \in 1..Len(sent[s]) :
        \E j \in 1..Len(rcvd[s]) : Answers(rcvd[s][j], sent[s][i].data)

\* session states of the design: the peer list was delivered; the caller was
\* told the tracker is unreachable (a report no statement of getPeers makes)
Done(s) == Len(calls[s]) >= 1
Failed(s) == pc[s] = "failed"

-----------------------------------------------------------------------------
(* C1 *)

\* C1: transaction isolation.  Whenever the listener is applied to a datagram
\* whose transaction id differs from the one the session is waiting for, the
\* session is left as it was: nothing is sent, the callback is not invoked,
\* and no exception ends it.
C1_TransactionIsolation ==
    [][\A s \in Sessions :
          (Dispatched(s) /\ TxOf(Head(inbox[s])) # PendingTx(s))
              => /\ sent'[s] = sent[s]
                 /\ calls'[s] = calls[s]
                 /\ pc'[s] = pc[s]
                 /\ uncaught' = uncaught]_vars

-----------------------------------------------------------------------------
(* C2 *)

\* C2: whatever datagrams a session receives, its callback is invoked at most
\* once in total.
C2_CallbackAtMostOnce == \A s \in Sessions : Len(calls[s]) <= 1

-----------------------------------------------------------------------------
(* C4 *)

\* C4: no datagram makes the listener raise, and a malformed one leaves the
\* session as it was, still listening.
C4_NoDecodeErrorTerminates ==
    [][\A s \in Sessions :
          Dispatched(s)
              => /\ uncaught' = "none"
                 /\ Malformed(Head(inbox[s]))
                       => /\ sent'[s] = sent[s]
                          /\ calls'[s] = calls[s]
                          /\ pc'[s] = pc[s]]_vars

-----------------------------------------------------------------------------
(* C5 *)

\* C5: every session terminates.  A started session that is neither Done nor
\* Failed always has a step of its own left to take (a datagram to dispatch,
\* or the timeout that resends and finally fails it), so that it cannot stay
\* short of Done and Failed for ever.
C5_SessionTerminates ==
    \A s \in Sessions :
        pc[s] # "idle" => Done(s) \/ Failed(s) \/ ENABLED Dispatch(s)

-----------------------------------------------------------------------------
(* C6 *)

\* C6: end to end.  Once a session is started and every request it has sent
\* has been answered by a well-formed response with the matching transaction
\* id, and the answers have been dispatched, the callback has been invoked
\* exactly once, with the peers of the announce response.
C6_EndToEnd ==
    \A s \in Sessions :
        (pc[s] # "idle" /\ Answered(s) /\ Len(inbox[s]) = 0)
            => /\ Len(calls[s]) = 1
               /\ \E j \in 1..Len(rcvd[s]) :
                     /\ Answers(rcvd[s][j], sent[s][Len(sent[s])].data)
                     /\ calls[s][1] = PeersOf(rcvd[s][j])

-----------------------------------------------------------------------------
(* C7 *)

\* C7: once the caller has abandoned a session, the session sends no request
\* and does not invoke the callback, whatever arrives.
C7_Cancellation ==
    [][\A s \in Sessions :
          abandoned[s] => sent'[s] = sent[s] /\ calls'[s] = calls[s]]_vars

-----------------------------------------------------------------------------
(* C8 *)

\* 0x0000041727101980
Magic == <<0, 0, 4, 23, 39, 16, 25, 128>>

\* C8: a started session has sent, first of all, a 16-byte connect request to
\* the announce endpoint of its descriptor: the magic constant, action 0 and
\* a freshly drawn transaction id (the pending one: PendingTx reads it back
\* from the request).
C8_ConnectRequestFirst ==
    \A s \in Sessions :
        pc[s] # "idle"
            => /\ Len(sent[s]) >= 1
               /\ LET first == sent[s][1] IN
                  /\ first.address = urlParse(torrent[s].announce).hostname
                  /\ first.port = urlParse(torrent[s].announce).port
                  /\ Len(first.data) = 16
                  /\ slice(first.data, 0, 8) = Magic
                  /\ slice(first.data, 8, 12) = U32BE(0)
                  /\ slice(first.data, 12, 16) \in RandomBytes4

-----------------------------------------------------------------------------
(* C9 *)

\* C9: connection id echo.  An announce request built from a connect response
\* carries in bytes 0-7 the bytes 8-15 of that response; from a connect
\* response shorter than 16 bytes decoding fails and no request is built.
C9_ConnectionIdEcho ==
    (out.op = "EncodeAnnounce" /\ out.done)
        => IF Len(out.in.resp) >= 16
           THEN /\ out.res.req.t = "buffer"
                /\ slice(out.res.req.b, 0, 8) = slice(out.in.resp, 8, 16)
           ELSE /\ out.res.connResp.err # "none"
                /\ out.res.req.t = "undefined"

-----------------------------------------------------------------------------
(* C10 *)

\* C10: in every announce request built, a 98-byte buffer, bytes 80-83 (event)
\* are zero and bytes 84-87 (IP address) are zero.
C10_EventAndIpDistinct ==
    (out.op = "EncodeAnnounce" /\ out.done /\ out.res.req.t = "buffer")
        => /\ Len(out.res.req.b) = 98
           /\ slice(out.res.req.b, 80, 84) = U32BE(0)
           /\ slice(out.res.req.b, 84, 88) = U32BE(0)

-----------------------------------------------------------------------------
(* C11 *)

\* an announce response the wire format rules out: shorter than 20 bytes, or
\* with a trailing partial peer group
MalformedAnnounce(d) == Len(d) < 20 \/ (Len(d) - 20) % 6 # 0

\* C11: decoding a byte string shorter than 20 bytes, or whose length is not
\* 20 plus a multiple of 6, as an announce response fails; it never yields a
\* peer list.
C11_MalformedAnnounceRejected ==
    (out.op = "DecodeAnnounce" /\ out.done /\ MalformedAnnounce(out.in))
        => out.res.err # "none"

-----------------------------------------------------------------------------
(* C12 *)

\* the big-endian unsigned 32-bit value at bytes offset .. offset + 3
FieldAt(d, offset) ==
    ((d[offset + 1] * 256 + d[offset + 2]) * 256 + d[offset + 3]) * 256 + d[offset + 4]

\* C12: a well-formed announce response decodes to action = bytes 0-3,
\* transactionId = bytes 4-7, interval = bytes 8-11, leechers = bytes 12-15
\* and seeders = bytes 16-19.
C12_AnnounceHeaderFields ==
    (out.op = "DecodeAnnounce" /\ out.done /\ ~MalformedAnnounce(out.in))
        => /\ out.res.err = "none"
           /\ out.res.val.action = FieldAt(out.in, 0)
           /\ out.res.val.transactionId = FieldAt(out.in, 4)
           /\ "interval" \in DOMAIN out.res.val
           /\ out.res.val.interval = FieldAt(out.in, 8)
           /\ out.res.val.leechers = FieldAt(out.in, 12)
           /\ out.res.val.seeders = FieldAt(out.in, 16)

-----------------------------------------------------------------------------
(* C13 *)

\* four bytes in dotted decimal
DottedDecimal(b) ==
    ToString(b[1]) \o "." \o ToString(b[2]) \o "." \o ToString(b[3]) \o "." \o ToString(b[4])

\* peer k (from 0) of the wire format: address at 20 + 6k, port at 24 + 6k
WirePeer(d, k) ==
    [ip |-> DottedDecimal(SubSeq(d, 21 + 6 * k, 24 + 6 * k)),
     port |-> d[25 + 6 * k] * 256 + d[26 + 6 * k]]

\* C13: an announce response of length 20 + 6n decodes to exactly n peers, in
\* wire order, peer k with the dotted-decimal address of bytes 20+6k..23+6k
\* and the big-endian port of bytes 24+6k..25+6k.
C13_PeerParsing ==
    (out.op = "DecodeAnnounce" /\ out.done /\ ~MalformedAnnounce(out.in))
        => /\ out.res.err = "none"
           /\ Len(out.res.val.peers) = (Len(out.in) - 20) \div 6
           /\ \A k \in 0..(Len(out.res.val.peers) - 1) :
                 out.res.val.peers[k + 1] = WirePeer(out.in, k)

\* reached: a response of two or more peers has been decoded, one of none too
C13_Witness ==
    /\ out.op = "DecodeAnnounce"
    /\ out.done
    /\ Len(out.in) = 20 + 6 * 2
    /\ out.res.err = "none"
    /\ out.res.val.peers = << [ip |-> "192.168.1.1", port |-> 6881],
                              [ip |-> "10.0.0.5", port |-> 51413] >>

-----------------------------------------------------------------------------
(* C14 *)

\* a peer id: 20 bytes, the first 8 of them the client tag
IsPeerId(b) == Len(b) = 20 /\ SubSeq(b, 1, 8) = ClientTag

\* C14: every call of the peer-id accessor returns a 20-byte id that starts
\* with the client tag, the calls after the first return the value the first
\* returned, and an announce request carries the id at bytes 36-55.
C14_PeerIdReused ==
    /\ out.op = "peerId" =>
          \A i \in 1..Len(out.res) :
              /\ out.res[i].err = "none"
              /\ out.res[i].val.t = "buffer"
              /\ IsPeerId(out.res[i].val.b)
              /\ out.res[i] = out.res[1]
    /\ (out.op = "EncodeAnnounce" /\ out.done /\ out.res.req.t = "buffer") =>
          /\ IsPeerId(out.in.peerId)
          /\ SubSeq(out.res.req.b, 37, 56) = out.in.peerId

-----------------------------------------------------------------------------
(* C15 *)

\* the exact sum of the numbers of a list
RECURSIVE Total(_)
Total(a) == IF Len(a) = 0 THEN <<>> ELSE addBytes(a[1], Total(Tail(a)), 0)

\* the content size of a descriptor: its file lengths summed, or its length
ContentSize(tor) ==
    IF tor.info.files.t = "array" THEN Total(tor.info.files.a) ELSE tor.info.length.n

\* the size can be derived (there is a length, or at least one file) and fits
\* in 64 bits
FitsIn64(tor) ==
    /\ tor.info.files.t = "array" => Len(tor.info.files.a) >= 1
    /\ Len(ContentSize(tor)) <= 8

\* C15: for a descriptor whose total fits in 64 bits, size returns exactly 8
\* bytes, the big-endian total of the file lengths or the single length.
C15_SizeEncoding ==
    (out.op = "size" /\ out.done /\ FitsIn64(out.in))
        => /\ out.res.err = "none"
           /\ Len(out.res.val) = 8
           /\ strip(out.res.val) = ContentSize(out.in)

-----------------------------------------------------------------------------
(* C16 *)

\* what respType makes of the action field of a datagram of 4 bytes or more
ClassOf(d) ==
    IF slice(d, 0, 4) = U32BE(0) THEN "connect"
    ELSE IF slice(d, 0, 4) = U32BE(1) THEN "announce"
    ELSE "unknown"

\* session s has sent an announce request: a datagram with action 1 at bytes 8-11
AnnounceSent(s) ==
    \E i \in 1..Len(sent[s]) :
        Len(sent[s][i].data) >= 12 /\ slice(sent[s][i].data, 8, 12) = U32BE(1)

\* C16: while a session awaits the connect response, a datagram classified
\* announce or unknown is discarded and leaves the session as it was; and the
\* callback is not invoked before the session has sent its announce request.
C16_OutOfOrderDiscarded ==
    [][\A s \in Sessions :
          /\ (Dispatched(s) /\ ~AnnounceSent(s) /\ Len(Head(inbox[s])) >= 4
                 /\ ClassOf(Head(inbox[s])) # "connect")
                => /\ sent'[s] = sent[s]
                   /\ calls'[s] = calls[s]
                   /\ pc'[s] = pc[s]
                   /\ uncaught' = uncaught
          /\ Len(calls'[s]) > Len(calls[s]) => AnnounceSent(s)]_vars

-----------------------------------------------------------------------------
(* C18 *)

\* C18: the announce request a session sends on a connect response is built
\* from the descriptor getPeers was given: bytes 16-35 are its info hash,
\* bytes 64-71 its size, bytes 56-63 and 72-79 are zero.
C18_AnnounceFromDescriptor ==
    [][\A s \in Sessions :
          (Dispatched(s) /\ Len(Head(inbox[s])) >= 16
             /\ ClassOf(Head(inbox[s])) = "connect")
            => /\ Len(sent'[s]) = Len(sent[s]) + 1
               /\ LET req == sent'[s][Len(sent'[s])].data IN
                  /\ Len(req) = 98
                  /\ slice(req, 16, 36) = infoHash(torrent[s]).val
                  /\ slice(req, 64, 72) = size(torrent[s]).val
                  /\ slice(req, 56, 64) = alloc(8)
                  /\ slice(req, 72, 80) = alloc(8)]_vars

-----------------------------------------------------------------------------
(* C19 *)

\* C19: when the size of the descriptor cannot be derived or does not fit in
\* 64 bits, getPeers fails with that error before anything is sent: deriving
\* the size is an error, the call has raised, and the session has sent nothing.
C19_PreflightSizeError ==
    \A s \in Sessions :
        (pc[s] # "idle" /\ ~FitsIn64(torrent[s]))
            => /\ size(torrent[s]).err # "none"
               /\ pc[s] = "threw"
               /\ sent[s] = <<>>

-----------------------------------------------------------------------------
(* C20 *)

\* C20: sessions are isolated.  A datagram handled on the socket of session s
\* sends nothing on, and invokes no callback of, any other session, and
\* leaves the other sessions' sockets and descriptors as they were; it does
\* not touch the cached peer id.
C20_SessionsIsolated ==
    [][\A s \in Sessions :
          Dispatched(s)
            => /\ \A t \in Sessions \ {s} :
                     /\ sent'[t] = sent[t]
                     /\ calls'[t] = calls[t]
                     /\ logs'[t] = logs[t]
                     /\ inbox'[t] = inbox[t]
                     /\ rcvd'[t] = rcvd[t]
                     /\ pc'[t] = pc[t]
                     /\ torrent'[t] = torrent[t]
               /\ id' = id]_vars

\* reached: two sessions have each handled a datagram of their own socket, one
\* has had its callback invoked with two peers, the other with none
C20_Witness ==
    \E s \in Sessions, t \in Sessions :
        /\ s # t
        /\ Len(rcvd[s]) >= 1
        /\ Len(rcvd[t]) >= 1
        /\ Len(calls[s]) = 1 /\ Len(calls[s][1]) = 2
        /\ calls[t] = <<>>

====
